---- MODULE Spec2Model ----
(***************************************************************************)
(* State-machine model of src/has.py: the `has` command-availability       *)
(* checker.  main() parses the first argument, then for every argument     *)
(* runs detect_command(), which asks shutil.which() whether the name is    *)
(* on the search path and, when it is, get_command_version() to extract a  *)
(* version text by spawning child processes.                               *)
(*                                                                         *)
(* Text is modelled as a sequence of one-character strings so that         *)
(* strip(), split(), re.sub() and slicing are computed, not assumed.       *)
(* Command-line tokens are TLA+ strings; Chars gives their characters.     *)
(***************************************************************************)
EXTENDS Integers, Sequences, FiniteSets, TLC

VARIABLES
    argv,         \* sys.argv[1:], the tokens after the program name
    pc,           \* position of the single thread of control
    i,            \* index in argv of the name the loop of main() is at
    fail_count,   \* main(): fail_count
    out,          \* the lines printed to standard output so far
    lookups,      \* the answers shutil.which() gave so far, in order
    spawned,      \* argv of every child spawned for the current name
    children,     \* argv of the children running now
    result,       \* outcome of the latest subprocess.run() for this name
    version,      \* value get_command_version() returned for this name
    flag,         \* index in version_flags of the flag the sweep is at
    exit_code,    \* argument handed to sys.exit(), -1 before that
    exit_status   \* status the host observes, -1 while running

vars == <<argv, pc, i, fail_count, out, lookups, spawned, children,
          result, version, flag, exit_code, exit_status>>

----------------------------------------------------------------------------
(* Bounds of the model *)

\* longest command line of the probing specification
MaxArgs == 2

\* longest command line of the specification of runs where nothing is found
MaxMissing == 257

----------------------------------------------------------------------------
(* Program constants *)

BINARY_NAME == "has"
VERSION == "v2.0.0"
PASS == "PASS"
FAIL == "FAIL"

\* detect_command(): `len(version) > 50`
LineLimit == 50
\* detect_command(): `version[:47]`
KeepLen == 47
\* detect_command(): the ellipsis marker "..."
Ellipsis == <<".", ".", ".">>

\* get_command_version(): version_flags
version_flags == <<"--version", "-version", "-v", "version", "-V">>

\* get_command_version(): the names probed with the shell's `type`
builtins ==
    {"type", "alias", "bg", "bind", "break", "builtin", "caller", "cd",
     "command", "compgen", "complete", "continue", "declare", "dirs",
     "disown", "echo", "enable", "eval", "exec", "exit", "export", "fc",
     "fg", "getopts", "hash", "help", "history", "jobs", "kill", "let",
     "local", "logout", "mapfile", "popd", "printf", "pushd", "pwd",
     "read", "readarray", "readonly", "return", "set", "shift", "shopt",
     "source", "suspend", "test", "times", "trap", "typeset", "ulimit",
     "umask", "unalias", "unset", "wait"}

\* mutant of VersionOptions: the long spelling is forgotten
VersionOptions_Short == {"-v"}

\* main(): the options printing the version line
VersionOptions == {"-v", "--version"}
\* main(): the options printing the help text
HelpOptions == {"-h", "--help"}

\* sys.exit(n): the host keeps the low 8 bits of the status
ExitStatusBits == 8
ExitStatusRange == 2 ^ ExitStatusBits

----------------------------------------------------------------------------
(* Text *)

\* the value None of Optional[str]; no text has a multi-character element
None == <<"None">>

\* str.strip() and the regular expression's \s: the whitespace characters
IsSpace(c) == c \in {" ", "\n", "\t", "\r"}

RECURSIVE lstrip(_)
lstrip(s) ==
    IF s = <<>> THEN s
    ELSE IF IsSpace(Head(s)) THEN lstrip(Tail(s)) ELSE s

RECURSIVE rstrip(_)
rstrip(s) ==
    IF s = <<>> THEN s
    ELSE IF IsSpace(s[Len(s)]) THEN rstrip(SubSeq(s, 1, Len(s) - 1)) ELSE s

\* str.strip()
strip(s) == rstrip(lstrip(s))

\* s.split('\n')[0]: the text before the first newline
RECURSIVE first_line(_)
first_line(s) ==
    IF s = <<>> THEN s
    ELSE IF Head(s) = "\n" THEN <<>> ELSE <<Head(s)>> \o first_line(Tail(s))

\* s.startswith(p)
startswith(s, p) == Len(s) >= Len(p) /\ SubSeq(s, 1, Len(p)) = p

\* needle in s
contains(s, needle) ==
    \E k \in 0..(Len(s) - Len(needle)) : SubSeq(s, k + 1, k + Len(needle)) = needle

\* the regular expression's optional group (\([^)]*\))?: what is left of s
\* after a leading parenthesised annotation, s itself when there is none
skip_annotation(s) ==
    IF s # <<>> /\ Head(s) = "(" /\ \E k \in 2..Len(s) : s[k] = ")"
    THEN LET close == CHOOSE k \in 2..Len(s) :
                          s[k] = ")" /\ \A j \in 2..(k - 1) : s[j] # ")"
         IN  SubSeq(s, close + 1, Len(s))
    ELSE s

\* re.sub(f'^{re.escape(cmd)}\s*(\([^)]*\))?\s*', '', version)
strip_name(name, v) ==
    IF startswith(v, name)
    THEN lstrip(skip_annotation(lstrip(SubSeq(v, Len(name) + 1, Len(v)))))
    ELSE v

\* mutant of truncate: the slice keeps one character too many
truncate_KeepsOneMore(v) ==
    IF Len(v) > LineLimit THEN SubSeq(v, 1, KeepLen + 1) \o Ellipsis ELSE v

\* detect_command(): `if version and len(version) > 50: version[:47] + "..."`
truncate(v) ==
    IF Len(v) > LineLimit THEN SubSeq(v, 1, KeepLen) \o Ellipsis ELSE v

----------------------------------------------------------------------------
(* The command line and the environment the run is checked against *)

Chars ==
    [t \in {"node", "echo", "git", "bash", "-v", "--version", "-h", "--help", "-x"} |->
        CASE t = "node"      -> <<"n", "o", "d", "e">>
          [] t = "echo"      -> <<"e", "c", "h", "o">>
          [] t = "git"       -> <<"g", "i", "t">>
          [] t = "bash"      -> <<"b", "a", "s", "h">>
          [] t = "-v"        -> <<"-", "v">>
          [] t = "--version" -> <<"-", "-", "v", "e", "r", "s", "i", "o", "n">>
          [] t = "-h"        -> <<"-", "h">>
          [] t = "--help"    -> <<"-", "-", "h", "e", "l", "p">>
          [] t = "-x"        -> <<"-", "x">>]

\* tokens that may stand first on the command line
FirstTokens == {"node", "echo", "git", "-v", "--version", "-h", "--help", "-x"}
\* tokens that may follow
LaterTokens == {"echo", "-v"}

SeqsUpTo(S, n) == UNION {[1..k -> S] : k \in 0..n}

ArgvSet ==
    {<<>>} \cup
    {<<t>> \o rest : t \in FirstTokens, rest \in SeqsUpTo(LaterTokens, MaxArgs - 1)}

Digit(k) == <<"0", "1", "2", "3", "4", "5", "6", "7", "8", "9">>[(k % 10) + 1]
\* a text of n characters whose k-th character depends on k
Digits(n) == [k \in 1..n |-> Digit(k)]

\* what a probed tool may write to standard output
Outputs(name) ==
    {<<>>,
     <<" ", "\n">>,
     <<"1", ".", "0", "\n">>,
     <<"1", ".", "0", " ", "\n", "x", "\n">>,
     Chars[name] \o <<" ", "(", "x", ")", " ", "2", "\n">>,
     Digits(LineLimit),
     Digits(LineLimit + 1),
     Chars[name] \o <<" ">> \o Digits(LineLimit - 2),
     Chars[name] \o <<" ">> \o Digits(LineLimit + 1)}

shell_builtin == <<"s", "h", "e", "l", "l", " ", "b", "u", "i", "l", "t", "i", "n">>

\* what the shell may answer to `type <cmd>`
TypeOutputs(name) ==
    {<<>>,
     Chars[name] \o <<" ", "i", "s", " ", "a", " ">> \o shell_builtin \o <<"\n">>,
     Chars[name] \o <<" ", "i", "s", " ", "/", "b", "i", "n", "/">> \o Chars[name] \o <<"\n">>}

\* subprocess.run() raising before a child runs
SpawnErrors == {"FileNotFoundError", "OSError"}
\* subprocess.run() raising once the child runs
RunErrors == {"TimeoutExpired", "UnicodeDecodeError"}
\* `except (subprocess.SubprocessError, FileNotFoundError)`
Caught == {"TimeoutExpired", "FileNotFoundError"}

Completed(rc, stdout) == [returncode |-> rc, stdout |-> stdout, exc |-> "none"]
Raised(e) == [returncode |-> -1, stdout |-> <<>>, exc |-> e]
NoResult == Raised("unset")

\* the outcomes of a child that ran to its end: status zero with any of the
\* outputs, or a non-zero status with or without output
Completions(outs) ==
    {Completed(0, o) : o \in outs} \cup
    {Completed(1, o) : o \in {<<>>, <<"1", ".", "0", "\n">>}}

----------------------------------------------------------------------------
(* Output lines *)

command_not_found ==
    <<"c", "o", "m", "m", "a", "n", "d", " ", "n", "o", "t", " ",
      "f", "o", "u", "n", "d">>

\* print(f"{PASS} {cmd} {version}")
PassLine(name, text) == [mark |-> PASS, name |-> name, rest |-> <<text>>]
\* print(f"{PASS} {cmd}")
BareLine(name) == [mark |-> PASS, name |-> name, rest |-> <<>>]
\* print(f"{FAIL} {cmd} command not found")
FailLine(name) == [mark |-> FAIL, name |-> name, rest |-> <<command_not_found>>]
\* show_help()
HelpLine == [mark |-> "help", name |-> BINARY_NAME, rest |-> <<>>]
\* print(f"{BINARY_NAME} {VERSION}")
VersionLine == [mark |-> BINARY_NAME, name |-> VERSION, rest |-> <<>>]
\* print(f"Unknown option: {sys.argv[1]}")
UnknownLine(tok) == [mark |-> "Unknown option:", name |-> tok, rest |-> <<>>]

\* mutant of Emit: the newest line is put first
Emit_Prepend(lines, line) == <<line>> \o lines

\* print(): the line goes after everything printed before
Emit(lines, line) == Append(lines, line)

\* detect_command(): the line for a found command whose version is v
FoundLine(name, v) ==
    IF v # None /\ v # <<>>
    THEN PassLine(name, truncate(strip_name(Chars[name], v)))
    ELSE BareLine(name)

----------------------------------------------------------------------------
(* Child processes *)

NodeChild(name) == <<name, "-e", "console.log(process.version)">>
TypeChild(name) == <<"bash", "-c", "type " \o name>>
FlagChild(name, f) == <<name, version_flags[f]>>

\* sys.exit(n) as the host sees it
HostStatus(n) == n % ExitStatusRange

----------------------------------------------------------------------------
(* Control flow shared by the actions *)

\* the name detect_command() is working on
cmd == argv[i]

\* str.startswith('-') on a command-line token
IsOption(tok) == startswith(Chars[tok], <<"-">>)

\* mutant of Tally: the test of main() without its `not`
Tally_Inverted(count, found) == IF found THEN count + 1 ELSE count

\* main(): `if not detect_command(cmd): fail_count += 1`
Tally(count, found) == IF found THEN count ELSE count + 1

\* mutant of FirstStrategy: the shell-builtin special case is skipped
FirstStrategy_SkipsType(name) ==
    IF name = "node" THEN "node_run" ELSE "flag_run"

\* get_command_version(): where the probing of a found name begins
FirstStrategy(name) ==
    IF name = "node" THEN "node_run"
    ELSE IF name \in builtins THEN "type_run" ELSE "flag_run"

\* get_command_version(): where it goes on when the node special case gave
\* nothing
AfterNode(name) == IF name \in builtins THEN "type_run" ELSE "flag_run"

\* get_command_version(): `if result.returncode == 0` of the node special case
NodeSucceeded(r) == r.exc = "none" /\ r.returncode = 0

\* get_command_version(): `result.returncode == 0 and "shell builtin" in
\* result.stdout`
TypeSucceeded(r) ==
    r.exc = "none" /\ r.returncode = 0 /\ contains(r.stdout, shell_builtin)

\* get_command_version(): `result.returncode == 0 and result.stdout`
FlagSucceeded(r) == r.exc = "none" /\ r.returncode = 0 /\ r.stdout # <<>>

\* get_command_version(): `result.stdout.strip().split('\n')[0]`
FlagVersion(stdout) == first_line(strip(stdout))

\* sys.exit(n)
Exit(n) ==
    /\ pc' = "exited"
    /\ exit_code' = n
    /\ exit_status' = HostStatus(n)

\* get_command_version() returns v: detect_command() prints the line of the
\* found command and returns True, and the loop of main() moves on
Return(v) ==
    /\ version' = v
    /\ out' = Emit(out, FoundLine(cmd, v))
    /\ fail_count' = Tally(fail_count, TRUE)
    /\ i' = i + 1
    /\ pc' = "detect"
    /\ UNCHANGED <<flag, exit_code, exit_status>>

\* an exception no handler catches: the interpreter prints a traceback and
\* the process ends with status 1
Crash ==
    /\ pc' = "crashed"
    /\ exit_status' = 1
    /\ UNCHANGED <<version, out, fail_count, i, flag, exit_code>>

\* get_command_version() goes on at position p
Goto(p) ==
    /\ pc' = p
    /\ UNCHANGED <<version, out, fail_count, i, flag, exit_code, exit_status>>

\* the flag sweep after a flag that gave nothing: the next flag, or
\* `return None` after the last
NextFlag ==
    IF flag < Len(version_flags)
    THEN /\ flag' = flag + 1
         /\ pc' = "flag_run"
         /\ UNCHANGED <<version, out, fail_count, i, exit_code, exit_status>>
    ELSE Return(None)

\* subprocess.run() raised e in a `try` of get_command_version(): the handler
\* runs when e is caught, and onward is where the handler leads
Handle(e, onward) == IF e \in Caught THEN onward ELSE Crash

----------------------------------------------------------------------------
(* Initial states *)

InitWith(args) ==
    /\ argv \in args
    /\ pc = "main"
    /\ i = 1
    /\ fail_count = 0
    /\ out = <<>>
    /\ lookups = <<>>
    /\ spawned = <<>>
    /\ children = {}
    /\ result = NoResult
    /\ version = None
    /\ flag = 1
    /\ exit_code = -1
    /\ exit_status = -1

Init == InitWith(ArgvSet)

----------------------------------------------------------------------------
(* main(): the special forms *)

\* `if len(sys.argv) == 1: show_help(); sys.exit(1)`
NoArguments ==
    /\ pc = "main"
    /\ Len(argv) = 0
    /\ out' = Emit(out, HelpLine)
    /\ Exit(1)
    /\ UNCHANGED <<argv, i, fail_count, lookups, spawned, children, result,
                   version, flag>>

\* `if sys.argv[1] in ['-v', '--version']: print(...); sys.exit(0)`
VersionOption ==
    /\ pc = "main"
    /\ Len(argv) > 0
    /\ IsOption(argv[1])
    /\ argv[1] \in VersionOptions
    /\ out' = Emit(out, VersionLine)
    /\ Exit(0)
    /\ UNCHANGED <<argv, i, fail_count, lookups, spawned, children, result,
                   version, flag>>

\* `elif sys.argv[1] in ['-h', '--help']: show_help(); sys.exit(0)`
HelpOption ==
    /\ pc = "main"
    /\ Len(argv) > 0
    /\ IsOption(argv[1])
    /\ argv[1] \notin VersionOptions
    /\ argv[1] \in HelpOptions
    /\ out' = Emit(out, HelpLine)
    /\ Exit(0)
    /\ UNCHANGED <<argv, i, fail_count, lookups, spawned, children, result,
                   version, flag>>

\* `else: print(f"Unknown option: ..."); show_help(); sys.exit(1)`
UnknownOption ==
    /\ pc = "main"
    /\ Len(argv) > 0
    /\ IsOption(argv[1])
    /\ argv[1] \notin VersionOptions
    /\ argv[1] \notin HelpOptions
    /\ out' = Emit(Emit(out, UnknownLine(argv[1])), HelpLine)
    /\ Exit(1)
    /\ UNCHANGED <<argv, i, fail_count, lookups, spawned, children, result,
                   version, flag>>

\* `fail_count = 0` and the entry of the loop over sys.argv[1:]
BeginChecks ==
    /\ pc = "main"
    /\ Len(argv) > 0
    /\ ~IsOption(argv[1])
    /\ fail_count' = 0
    /\ i' = 1
    /\ pc' = "detect"
    /\ UNCHANGED <<argv, out, lookups, spawned, children, result, version,
                   flag, exit_code, exit_status>>

\* `sys.exit(fail_count)` after the loop
ExitTally ==
    /\ pc = "detect"
    /\ i > Len(argv)
    /\ Exit(fail_count)
    /\ UNCHANGED <<argv, i, fail_count, out, lookups, spawned, children,
                   result, version, flag>>

----------------------------------------------------------------------------
(* detect_command() *)

\* mutant of DetectMissing: the not-found branch does not return and the
\* version probing is entered all the same
DetectMissing_Probes ==
    /\ pc = "detect"
    /\ i <= Len(argv)
    /\ lookups' = Append(lookups, FALSE)
    /\ out' = Emit(out, FailLine(cmd))
    /\ fail_count' = Tally(fail_count, FALSE)
    /\ pc' = FirstStrategy(cmd)
    /\ spawned' = <<>>
    /\ result' = NoResult
    /\ version' = None
    /\ flag' = 1
    /\ UNCHANGED <<argv, i, children, exit_code, exit_status>>

\* shutil.which(cmd) finds nothing: the not-found line, `return False`, and
\* main() counts the failure
DetectMissing ==
    /\ pc = "detect"
    /\ i <= Len(argv)
    /\ lookups' = Append(lookups, FALSE)
    /\ out' = Emit(out, FailLine(cmd))
    /\ fail_count' = Tally(fail_count, FALSE)
    /\ i' = i + 1
    /\ spawned' = <<>>
    /\ result' = NoResult
    /\ version' = None
    /\ flag' = 1
    /\ UNCHANGED <<argv, pc, children, exit_code, exit_status>>

\* shutil.which(cmd) finds the command: get_command_version(cmd) is entered
DetectFound ==
    /\ pc = "detect"
    /\ i <= Len(argv)
    /\ lookups' = Append(lookups, TRUE)
    /\ pc' = FirstStrategy(cmd)
    /\ spawned' = <<>>
    /\ result' = NoResult
    /\ version' = None
    /\ flag' = 1
    /\ UNCHANGED <<argv, i, fail_count, out, children, exit_code, exit_status>>

----------------------------------------------------------------------------
(* get_command_version() *)

\* subprocess.run([cmd, "-e", ...]) is called: the child starts, or the call
\* raises
NodeSpawn ==
    /\ pc = "node_run"
    /\ spawned' = Append(spawned, NodeChild(cmd))
    /\ \/ /\ children' = children \cup {NodeChild(cmd)}
          /\ result' = result
          /\ Goto("node_wait")
       \/ \E e \in SpawnErrors :
             /\ children' = children
             /\ result' = Raised(e)
             /\ Handle(e, Goto(AfterNode(cmd)))
    /\ UNCHANGED <<argv, lookups>>

\* the node child ends, is killed at the timeout, or its output cannot be
\* decoded
NodeReturn ==
    /\ pc = "node_wait"
    /\ children' = children \ {NodeChild(cmd)}
    /\ \E r \in Completions(Outputs(cmd)) \cup {Raised(e) : e \in RunErrors} :
          /\ result' = r
          /\ IF r.exc # "none" THEN Handle(r.exc, Goto(AfterNode(cmd)))
             ELSE IF NodeSucceeded(r) THEN Return(strip(r.stdout))
             ELSE Goto(AfterNode(cmd))
    /\ UNCHANGED <<argv, lookups, spawned>>

\* subprocess.run(["bash", "-c", f"type {cmd}"]) is called
TypeSpawn ==
    /\ pc = "type_run"
    /\ spawned' = Append(spawned, TypeChild(cmd))
    /\ \/ /\ children' = children \cup {TypeChild(cmd)}
          /\ result' = result
          /\ Goto("type_wait")
       \/ \E e \in SpawnErrors :
             /\ children' = children
             /\ result' = Raised(e)
             /\ Handle(e, Goto("flag_run"))
    /\ UNCHANGED <<argv, lookups>>

\* the shell ends, is killed at the timeout, or its output cannot be decoded
TypeReturn ==
    /\ pc = "type_wait"
    /\ children' = children \ {TypeChild(cmd)}
    /\ \E r \in {Completed(rc, o) : rc \in {0, 1}, o \in TypeOutputs(cmd)}
                  \cup {Raised(e) : e \in RunErrors} :
          /\ result' = r
          /\ IF r.exc # "none" THEN Handle(r.exc, Goto("flag_run"))
             ELSE IF TypeSucceeded(r) THEN Return(shell_builtin)
             ELSE Goto("flag_run")
    /\ UNCHANGED <<argv, lookups, spawned>>

\* subprocess.run([cmd, flag]) is called for the flag the sweep is at
FlagSpawn ==
    /\ pc = "flag_run"
    /\ spawned' = Append(spawned, FlagChild(cmd, flag))
    /\ \/ /\ children' = children \cup {FlagChild(cmd, flag)}
          /\ result' = result
          /\ Goto("flag_wait")
       \/ \E e \in SpawnErrors :
             /\ children' = children
             /\ result' = Raised(e)
             /\ Handle(e, NextFlag)
    /\ UNCHANGED <<argv, lookups>>

\* the child of the flag ends, is killed at the timeout, or its output
\* cannot be decoded
FlagReturn ==
    /\ pc = "flag_wait"
    /\ children' = children \ {FlagChild(cmd, flag)}
    /\ \E r \in Completions(Outputs(cmd)) \cup {Raised(e) : e \in RunErrors} :
          /\ result' = r
          /\ IF r.exc # "none" THEN Handle(r.exc, NextFlag)
             ELSE IF FlagSucceeded(r)
                  THEN Return(FlagVersion(r.stdout))
             ELSE NextFlag
    /\ UNCHANGED <<argv, lookups, spawned>>

----------------------------------------------------------------------------
(* Specifications *)

Next ==
    \/ NoArguments
    \/ VersionOption
    \/ HelpOption
    \/ UnknownOption
    \/ BeginChecks
    \/ DetectMissing
    \/ DetectFound
    \/ NodeSpawn
    \/ NodeReturn
    \/ TypeSpawn
    \/ TypeReturn
    \/ FlagSpawn
    \/ FlagReturn
    \/ ExitTally

Spec == Init /\ [][Next]_vars

\* the interpreter runs one thread and every blocking call ends (a child ends
\* or is killed at its timeout), so a step that can be taken is taken
FairSpec == Spec /\ WF_vars(Next)

\* runs in which the search path holds none of the names
InitMissing ==
    InitWith({[k \in 1..n |-> "git"] : n \in (MaxMissing - 2)..MaxMissing})

NextMissing ==
    \/ BeginChecks
    \/ DetectMissing
    \/ ExitTally

SpecMissing == InitMissing /\ [][NextMissing]_vars

----------------------------------------------------------------------------
(* Vocabulary of the properties *)

Last(s) == s[Len(s)]

\* the run is one that probes names: there is a first token and it does not
\* start with '-'
ProbingRun == Len(argv) > 0 /\ Chars[argv[1]][1] # "-"

\* how many of the path lookups made so far found nothing
MissingCount == Cardinality({k \in 1..Len(lookups) : ~lookups[k]})

\* the probe of the latest name is over and it was found
ProbeOver == pc \in {"detect", "exited"} /\ lookups # <<>> /\ Last(lookups)

\* the text shown on the latest line, when it shows one
ShownText == Last(out).rest[1]

----------------------------------------------------------------------------
(* C1 *)

\* C1: the tally counts exactly the names path lookup did not find: in every
\* state fail_count is the number of failed lookups made so far (a found name
\* adds nothing, whatever its version probing did), and the value handed to
\* sys.exit() at the end of a probing run is the number of names of the
\* command line whose lookup failed.
C1_TallyCountsMissing ==
    /\ fail_count = MissingCount
    /\ (pc = "exited" /\ ProbingRun) =>
          /\ Len(lookups) = Len(argv)
          /\ exit_code = MissingCount

\* a run that ended after a missing name and a found name none of whose five
\* version flags gave a result
C1_Witness ==
    /\ pc = "exited"
    /\ lookups = <<FALSE, TRUE>>
    /\ version = None
    /\ Len(spawned) = 5
    /\ exit_code = 1

----------------------------------------------------------------------------
(* C2 *)

\* C2: the exit status is the tally capped to 0..255, so it is 0 exactly
\* when every name was found.
C2_ExitStatusCapped ==
    (pc = "exited" /\ ProbingRun) =>
        /\ exit_status = (IF exit_code > 255 THEN 255 ELSE exit_code)
        /\ (exit_status = 0) <=> (\A k \in 1..Len(lookups) : lookups[k])

----------------------------------------------------------------------------
(* C5 *)

\* C5: a name path lookup does not find is done at once: right after the
\* failed lookup control is back in the loop, no child was spawned or is
\* running for the name, no version text exists, and the line printed for it
\* is exactly `<fail-mark> <name> command not found`; and the line of every
\* name whose lookup failed is that line.
C5_MissingIsImmediate ==
    /\ (lookups # <<>> /\ ~Last(lookups)) =>
          /\ pc \in {"detect", "exited"}
          /\ spawned = <<>>
          /\ children = {}
          /\ version = None
          /\ Len(out) = Len(lookups)
          /\ i = Len(lookups) + 1
    /\ \A k \in 1..Len(lookups) :
          (~lookups[k] /\ k <= Len(out)) =>
              out[k] = [mark |-> "FAIL", name |-> argv[k],
                        rest |-> <<command_not_found>>]

\* the second name was not found, after a first name that was
C5_Witness ==
    /\ lookups = <<TRUE, FALSE>>
    /\ Len(out) = 2
    /\ out[2].mark = "FAIL"

----------------------------------------------------------------------------
(* C6 *)

\* C6: output order: in a probing run the lines printed so far are the lines
\* of the names whose probe is over, one each and in command-line order
\* (line k is the line of argv[k], a pass line when its lookup succeeded and
\* a fail line when not); the lookup of a name is made only when the lines of
\* all names before it are out; and a run that reaches sys.exit() has printed
\* one line per name.
C6_OrderPreserved ==
    ProbingRun =>
        /\ Len(lookups) <= Len(argv)
        /\ Len(out) \in {Len(lookups) - 1, Len(lookups)}
        /\ (Len(out) = Len(lookups) - 1) =>
              pc \in {"node_run", "node_wait", "type_run", "type_wait",
                      "flag_run", "flag_wait", "crashed"}
        /\ (spawned # <<>> \/ children # {}) => Len(lookups) >= 1
        /\ \A k \in 1..Len(out) :
              /\ out[k].name = argv[k]
              /\ out[k].mark = (IF lookups[k] THEN "PASS" ELSE "FAIL")
        /\ pc = "exited" => Len(out) = Len(argv)

\* two different names, both missing: the first one's line comes first
C6_Witness ==
    /\ pc = "exited"
    /\ argv = <<"git", "echo">>
    /\ out = <<FailLine("git"), FailLine("echo")>>

----------------------------------------------------------------------------
(* C7 *)

\* no path lookup was made and no child was spawned
NothingProbed == lookups = <<>> /\ spawned = <<>> /\ children = {}

\* C7: only the first token is read as an option.  No arguments: help, exit
\* 1.  First token -v or --version: the version line, exit 0.  First token -h
\* or --help: help, exit 0.  Any other first token starting with '-':
\* `Unknown option: <token>`, help, exit 1.  In these four cases nothing is
\* ever probed, whatever follows.  Otherwise every token, a later one
\* starting with '-' included, is probed as a command name.
C7_FirstTokenOnly ==
    /\ pc = "main" => NothingProbed /\ out = <<>>
    /\ (pc # "main" /\ Len(argv) = 0) =>
          /\ NothingProbed
          /\ pc = "exited" /\ exit_code = 1 /\ out = <<HelpLine>>
    /\ (pc # "main" /\ Len(argv) > 0 /\ Chars[argv[1]][1] = "-") =>
          /\ NothingProbed
          /\ pc = "exited"
          /\ CASE argv[1] \in {"-v", "--version"} ->
                    exit_code = 0 /\ out = <<VersionLine>>
               [] argv[1] \in {"-h", "--help"} ->
                    exit_code = 0 /\ out = <<HelpLine>>
               [] OTHER ->
                    exit_code = 1 /\ out = <<UnknownLine(argv[1]), HelpLine>>
    /\ (pc = "exited" /\ ProbingRun) =>
          /\ Len(lookups) = Len(argv)
          /\ \A k \in 1..Len(argv) :
                out[k].name = argv[k] /\ out[k].mark \in {"PASS", "FAIL"}

\* a run that probed `-v` as a command name because it came second
C7_Witness ==
    /\ pc = "exited"
    /\ argv = <<"git", "-v">>
    /\ Len(lookups) = 2
    /\ out[2].name = "-v"

----------------------------------------------------------------------------
(* Vocabulary of the properties about one probe *)

\* the name the latest path lookup was made for
CurName == argv[Len(lookups)]

\* a child of the flag sweep: [cmd, flag]
IsFlagChild(c) == Len(c) = 2

\* the flags invoked for the current name, in the order of their invocation
FlagsInvoked ==
    LET sweep == SelectSeq(spawned, IsFlagChild)
    IN  [k \in 1..Len(sweep) |-> sweep[k][2]]

\* the probe of the latest name is over and a flag was the last thing tried
SweepOver == ProbeOver /\ spawned # <<>> /\ IsFlagChild(Last(spawned))

\* a special case was the last thing tried and its attempt is over
SpecialCaseOver ==
    /\ spawned # <<>>
    /\ Last(spawned) \in {NodeChild(CurName), TypeChild(CurName)}
    /\ pc \notin {"node_wait", "type_wait"}

----------------------------------------------------------------------------
(* C3 *)

\* the latest attempt failed: it raised, exited non-zero or printed nothing
AttemptFailed ==
    \/ result.exc \notin {"none", "unset"}
    \/ result.exc = "none" /\ (result.returncode # 0 \/ result.stdout = <<>>)

\* C3: a failed attempt (any spawn error, non-zero exit, timeout, empty
\* output) counts as "no result" of that attempt: no error ever ends the
\* run, and after a failed attempt either the next strategy is being
\* attempted or, the strategies being exhausted, the name is reported found
\* without a version and the loop continues.
C3_FailuresAbsorbed ==
    /\ pc # "crashed"
    /\ AttemptFailed =>
          \/ pc \in {"type_run", "type_wait", "flag_run", "flag_wait"}
          \/ /\ ProbeOver
             /\ version = None
             /\ Last(spawned) = <<CurName, "-V">>
             /\ Last(out) = BareLine(CurName)

----------------------------------------------------------------------------
(* C4 *)

\* C4: the sweep invokes --version, -version, -v, version, -V in this order;
\* it ends at the first flag whose attempt exits with status zero and whose
\* first line of output, trimmed, is not empty, and that trimmed line is the
\* version; it ends without a version only when all five flags were tried;
\* the version it returns is never empty and has no whitespace at either end.
C4_SweepResult ==
    /\ FlagsInvoked =
          SubSeq(<<"--version", "-version", "-v", "version", "-V">>,
                 1, Len(FlagsInvoked))
    /\ SweepOver =>
          LET text == strip(first_line(result.stdout))
          IN  /\ IF result.exc = "none" /\ result.returncode = 0 /\ text # <<>>
                 THEN version = text
                 ELSE version = None /\ Len(FlagsInvoked) = 5
              /\ version # None =>
                    /\ version # <<>>
                    /\ ~IsSpace(version[1])
                    /\ ~IsSpace(Last(version))

----------------------------------------------------------------------------
(* C8 *)

\* no line shows a version text of more than 50 characters
ShownWithinLimit ==
    \A k \in 1..Len(out) :
        (out[k].mark = "PASS" /\ out[k].rest # <<>>) => Len(out[k].rest[1]) <= 50

\* C8 as claimed: an extracted version string of more than 50 characters is
\* shown as its own first 47 characters followed by "...", 50 characters in
\* all; and no shown version text is longer than 50 characters.
C8_TruncatesExtracted ==
    /\ (ProbeOver /\ version # None /\ Len(version) > 50) =>
          /\ Last(out).rest # <<>>
          /\ ShownText = SubSeq(version, 1, 47) \o <<".", ".", ".">>
          /\ Len(ShownText) = 50
    /\ ShownWithinLimit

\* C8, amended: a version string that is longer than 50 characters once the
\* leading command name (with its optional parenthesised annotation and
\* whitespace) has been stripped from it is shown as the first 47 characters
\* of the stripped string followed by "...", 50 characters in all; and no
\* shown version text is longer than 50 characters.
C8_TruncatesStripped ==
    /\ (ProbeOver /\ version # None /\ version # <<>>) =>
          LET stripped == strip_name(Chars[CurName], version)
          IN  /\ Last(out).rest # <<>>
              /\ Len(stripped) > 50 =>
                    /\ ShownText = SubSeq(stripped, 1, 47) \o <<".", ".", ".">>
                    /\ Len(ShownText) = 50
    /\ ShownWithinLimit

\* a version that starts with the command name and is longer than 50
\* characters even without it has been shown
C8_Witness ==
    /\ ProbeOver
    /\ version # None
    /\ startswith(version, Chars[CurName])
    /\ Len(strip_name(Chars[CurName], version)) > 50
    /\ Len(ShownText) = 50

----------------------------------------------------------------------------
(* C9 *)

\* the strategies of a name in the order (a) node, (b) shell builtin, (c) the
\* flags
Plan(name) ==
    <<NodeChild(name), TypeChild(name)>> \o
    [k \in 1..5 |-> <<name, <<"--version", "-version", "-v", "version", "-V">>[k]>>]

PlanIndex(name, c) == CHOOSE p \in 1..Len(Plan(name)) : Plan(name)[p] = c

\* the children of the current name were spawned in the order of the plan,
\* each once; the node child only for `node` and then first; the `type`
\* child only for a name of the builtin set and then before any flag; the
\* sweep from its first flag
StrategyOrder ==
    spawned # <<>> =>
        /\ \A k \in 1..Len(spawned) :
              \E p \in 1..Len(Plan(CurName)) : Plan(CurName)[p] = spawned[k]
        /\ \A j, k \in 1..Len(spawned) :
              j < k => PlanIndex(CurName, spawned[j]) < PlanIndex(CurName, spawned[k])
        /\ (CurName = "node") <=> (spawned[1] = NodeChild(CurName))
        /\ (\E k \in 1..Len(spawned) : spawned[k] = TypeChild(CurName)) =>
              CurName \in builtins
        /\ (CurName \in builtins /\ CurName # "node") =>
              spawned[1] = TypeChild(CurName)
        /\ FlagsInvoked # <<>> => FlagsInvoked[1] = "--version"

\* first success wins: when a version was returned, the attempt that ended
\* last is a child that exited with status zero, control is back in the loop
\* and no child runs, so nothing was spawned after the strategy that gave
\* the result
FirstSuccessWins ==
    version # None =>
        /\ pc \in {"detect", "exited"}
        /\ children = {}
        /\ result.exc = "none" /\ result.returncode = 0

\* the builtin special case gave the literal and ended the probe
BuiltinReported ==
    /\ ProbeOver
    /\ version = shell_builtin
    /\ Last(out) = PassLine(CurName, shell_builtin)
    /\ FlagsInvoked = <<>>

----------------------------------------------------------------------------
(* C10 *)

\* at most seven children per name, none spawned twice, at most one running
ResourceBounds ==
    /\ Len(spawned) <= 7
    /\ \A j, k \in 1..Len(spawned) : spawned[j] = spawned[k] => j = k
    /\ Cardinality(children) <= 1

\* C10: every run ends: no attempt is repeated, a name costs at most seven
\* children, at most one child runs at a time, and the process eventually
\* exits through sys.exit(), a probing run with the tally.
C10_ExitsWithTally ==
    /\ []ResourceBounds
    /\ <>(pc = "exited" /\ (ProbingRun => exit_code = fail_count))

====
